---- MODULE Spec2Model ----
(***************************************************************************)
(* Model of python_vimeo/client.py: the Vimeo client wrapper.              *)
(*                                                                         *)
(* Strings are sequences of tokens ("/", "videos", "42", ...), so that     *)
(* split, basename, startswith, replace and the f-strings that build the   *)
(* URLs are computed on the text.  A Python value that may be None is a    *)
(* sequence of length 0 (None) or 1 (the value).  A dict is a record       *)
(* whose domain is the set of keys present; the empty dict is << >>.       *)
(* Every public method is one action: the client is synchronous and        *)
(* single-threaded, so a call runs to its end before the next one starts.  *)
(* The variable `call` observes the last call: its arguments, the requests *)
(* it issued in order, the responses it received and how it ended.         *)
(***************************************************************************)
EXTENDS Integers, Sequences, FiniteSets, TLC

\* ------------------------------------------------------------------ bounds
\* longest video_uri handed to tag_video, in tokens
MaxUriLen == 3
\* most parameters in the query string of an iframe src
MaxParams == 2

\* ------------------------------------------------------- values and inputs
None == << >>
Some(v) == << v >>

\* response.status_code; 0 is the one falsy integer
StatusCodes == { 0, 200, 404 }

VideoUri42 == << "/", "videos", "/", "42" >>
FolderUri9 == << "/", "users", "/", "1", "/", "projects", "/", "9" >>

\* video_uri / folder_uri arguments of the methods
VideoUris == { VideoUri42, << "42" >>, << "/", "videos", "/", "42", "/" >> }
FolderUris == { FolderUri9, << "/", "me", "/", "projects", "/", "7", "/" >> }

UriTokens == { "/", "42" }

RECURSIVE StringsUpTo(_, _)
\* every string of at most n tokens over the alphabet
StringsUpTo(alphabet, n) ==
    IF n = 0 THEN { << >> }
    ELSE LET shorter == StringsUpTo(alphabet, n - 1) IN
         shorter \cup { Append(s, t) : s \in shorter, t \in alphabet }

\* the video_uri arguments of tag_video
TagVideoUris == StringsUpTo(UriTokens, MaxUriLen) \cup { VideoUri42 }

Tags == { << "demo" >>, << "a", "/", "b" >> }
Names == { << "x" >>, << >> }
Domains == { << "arbington.com" >> }

\* ----------------------------------------------------------- str helpers
RECURSIVE split(_, _)
\* s.split(sep): the pieces of s between the occurrences of sep
split(s, sep) ==
    IF \A i \in 1..Len(s) : s[i] # sep THEN << s >>
    ELSE LET i == CHOOSE k \in 1..Len(s) : s[k] = sep /\ \A j \in 1..(k - 1) : s[j] # sep IN
         << SubSeq(s, 1, i - 1) >> \o split(SubSeq(s, i + 1, Len(s)), sep)

\* s.split("/").pop(): the last piece
split_pop(s) == LET pieces == split(s, "/") IN pieces[Len(pieces)]

\* the host every REST call goes to
ApiHost == << "https://api.vimeo.com" >>

\* ------------------------------------------------------------- the client
VARIABLES
    CLIENT_ID,          \* str or None, set once by __init__
    CLIENT_SECRET,      \* str or None, set once by __init__
    py_vimeo_client,    \* None, or the memoized SDK client
    sdk_constructions,  \* how many times VimeoClient(...) was constructed
    response_code,      \* None, or the status code last recorded
    files,              \* names of the files in the working directory
    call                \* the last call, as its caller and the network saw it

vars == << CLIENT_ID, CLIENT_SECRET, py_vimeo_client, sdk_constructions,
           response_code, files, call >>

USER_ID == << "1" >>

\* self._set_response_code(status_code): the new value of response_code
_set_response_code(status_code) ==
    IF status_code = None \/ status_code = Some(0)
    THEN None
    ELSE status_code

\* requests.<method>(url, json=body) as it appears on the wire
Request(method, url, body) == [method |-> method, url |-> url, body |-> body]

\* a call that ended by returning `result`
Returned(op, args, sent, responses, result) ==
    [op |-> op, args |-> args, sent |-> sent, responses |-> responses,
     outcome |-> "returned", result |-> result, exc |-> ""]

\* a call that ended by raising `exc`
Raised(op, args, sent, responses, exc) ==
    [op |-> op, args |-> args, sent |-> sent, responses |-> responses,
     outcome |-> "raised", result |-> None, exc |-> exc]

\* ------------------------------------------------------- remote responses
\* a JSON error object, a JSON object naming a resource, the empty object
ErrorBody == [error |-> << "Something", "went", "wrong" >>]
UriBody == [uri |-> VideoUri42]
EmptyDict == << >>

\* response body: is_json is whether response.json() can decode it
JsonBody(data) == [is_json |-> TRUE, data |-> data]
NotJsonBody == [is_json |-> FALSE, data |-> EmptyDict]

\* bodies of the responses whose body the method never reads
UnreadBodies == { NotJsonBody, JsonBody(ErrorBody) }
PlainBodies == { NotJsonBody, JsonBody(EmptyDict), JsonBody(ErrorBody), JsonBody(UriBody) }

\* the responses to the requests whose body the method never reads, to the
\* requests that answer with a plain object and to tag_video's request
UnreadResponses == [status_code : { 200, 404 }, body : UnreadBodies]
PlainResponses == [status_code : { 200, 404 }, body : PlainBodies]
TagResponses == [status_code : StatusCodes, body : { NotJsonBody }]
                \cup { [status_code |-> 404, body |-> JsonBody(ErrorBody)] }

TypeOK ==
    /\ py_vimeo_client \in { None, Some(1) }
    /\ sdk_constructions \in 0..1
    /\ response_code \in { None } \cup { Some(c) : c \in StatusCodes \ {0} }

\* the (client_id, client_secret) arguments of the constructor
Credentials == { << Some("id"), Some("secret") >>, << None, Some("secret") >>,
                 << Some("id"), None >> }

Init ==
    /\ \E credentials \in Credentials :
          /\ CLIENT_ID = credentials[1]
          /\ CLIENT_SECRET = credentials[2]
    /\ py_vimeo_client = None
    /\ sdk_constructions = 0
    /\ response_code = None
    /\ files = { }
    /\ call = [op |-> "__init__", args |-> << >>, sent |-> << >>,
               responses |-> << >>, outcome |-> "returned", result |-> None,
               exc |-> ""]

\* what every method that uses only `requests` leaves alone
SdkAndFilesUnchanged ==
    UNCHANGED << CLIENT_ID, CLIENT_SECRET, py_vimeo_client, sdk_constructions, files >>

\* ------------------------------------------------- status-code operations
\* slip: the whole video_uri is pasted into the URL instead of its last segment
tag_video_url_whole_uri(video_uri, tag) ==
    ApiHost \o video_uri \o << "/", "tags", "/" >> \o tag

\* f"https://api.vimeo.com/videos/{video_id}/tags/{tag}"
tag_video_url(video_uri, tag) ==
    ApiHost \o << "/", "videos", "/" >> \o split_pop(video_uri) \o << "/", "tags", "/" >> \o tag

tag_video ==
    \E video_uri \in TagVideoUris, tag \in Tags, response \in TagResponses :
        /\ response_code' = _set_response_code(Some(response.status_code))
        /\ call' = Returned("tag_video", [video_uri |-> video_uri, tag |-> tag],
                            << Request("PUT", tag_video_url(video_uri, tag), None) >>,
                            << response >>, response.status_code)
        /\ SdkAndFilesUnchanged

remove_tag_from_video ==
    \E video_uri \in VideoUris, tag \in Tags, response \in UnreadResponses :
        /\ response_code' = _set_response_code(Some(response.status_code))
        /\ call' = Returned("remove_tag_from_video", [video_uri |-> video_uri, tag |-> tag],
                            << Request("DELETE", tag_video_url(video_uri, tag), None) >>,
                            << response >>, response.status_code)
        /\ SdkAndFilesUnchanged

domain_whitelist_video ==
    \E video_uri \in VideoUris, domain \in Domains, response \in UnreadResponses :
        /\ response_code' = _set_response_code(Some(response.status_code))
        /\ call' = Returned("domain_whitelist_video", [video_uri |-> video_uri, domain |-> domain],
                            << Request("PUT", ApiHost \o << "/", "videos", "/" >> \o split_pop(video_uri)
                                              \o << "/", "privacy", "/", "domains", "/" >> \o domain, None) >>,
                            << response >>, response.status_code)
        /\ SdkAndFilesUnchanged

update_video_title ==
    \E video_uri \in VideoUris, title \in Names, response \in UnreadResponses :
        /\ response_code' = _set_response_code(Some(response.status_code))
        /\ call' = Returned("update_video_title", [video_uri |-> video_uri, title |-> title],
                            << Request("PATCH", ApiHost \o video_uri, Some([name |-> title])) >>,
                            << response >>, response.status_code)
        /\ SdkAndFilesUnchanged

delete_video ==
    \E video_uri \in VideoUris, response \in UnreadResponses :
        /\ response_code' = _set_response_code(Some(response.status_code))
        /\ call' = Returned("delete_video", [video_uri |-> video_uri],
                            << Request("DELETE", ApiHost \o video_uri, None) >>,
                            << response >>, response.status_code)
        /\ SdkAndFilesUnchanged

\* f"https://api.vimeo.com{folder_uri}/videos/{video_id}"
folder_video_url(folder_uri, video_uri) ==
    ApiHost \o folder_uri \o << "/", "videos", "/" >> \o split_pop(video_uri)

add_video_to_folder ==
    \E folder_uri \in FolderUris, video_uri \in VideoUris, response \in UnreadResponses :
        /\ response_code' = _set_response_code(Some(response.status_code))
        /\ call' = Returned("add_video_to_folder", [folder_uri |-> folder_uri, video_uri |-> video_uri],
                            << Request("PUT", folder_video_url(folder_uri, video_uri), None) >>,
                            << response >>, response.status_code)
        /\ SdkAndFilesUnchanged

\* ------------------------------------------------------ folder operations
create_folder ==
    \E folder_name \in Names, response \in PlainResponses :
        LET sent == << Request("POST", ApiHost \o << "/", "users", "/" >> \o USER_ID \o << "/", "projects" >>,
                               Some([name |-> folder_name])) >>
            args == [folder_name |-> folder_name] IN
        /\ response_code' = _set_response_code(Some(response.status_code))
        /\ call' = IF ~response.body.is_json
                   THEN Raised("create_folder", args, sent, << response >>, "JSONDecodeError")
                   ELSE IF "uri" \notin DOMAIN response.body.data
                   THEN Raised("create_folder", args, sent, << response >>, "KeyError")
                   ELSE Returned("create_folder", args, sent, << response >>, response.body.data.uri)
        /\ SdkAndFilesUnchanged

update_folder_name ==
    \E folder_uri \in FolderUris, new_folder_name \in Names, response \in PlainResponses :
        LET sent == << Request("PATCH", ApiHost \o folder_uri, Some([name |-> new_folder_name])) >>
            args == [folder_uri |-> folder_uri, new_folder_name |-> new_folder_name] IN
        /\ response_code' = _set_response_code(Some(response.status_code))
        /\ call' = IF ~response.body.is_json
                   THEN Raised("update_folder_name", args, sent, << response >>, "JSONDecodeError")
                   ELSE Returned("update_folder_name", args, sent, << response >>, folder_uri)
        /\ SdkAndFilesUnchanged

\* slip: delete_folder decodes the response body as update_folder_name does
delete_folder_decoding ==
    \E folder_uri \in FolderUris, delete_all_videos_in_folder \in BOOLEAN,
       response \in PlainResponses :
        LET sent == << Request("DELETE", ApiHost \o folder_uri,
                               Some([should_delete_clips |-> delete_all_videos_in_folder])) >>
            args == [folder_uri |-> folder_uri,
                     delete_all_videos_in_folder |-> delete_all_videos_in_folder] IN
        /\ response_code' = _set_response_code(Some(response.status_code))
        /\ call' = IF ~response.body.is_json
                   THEN Raised("delete_folder", args, sent, << response >>, "JSONDecodeError")
                   ELSE Returned("delete_folder", args, sent, << response >>, folder_uri)
        /\ SdkAndFilesUnchanged

delete_folder ==
    \E folder_uri \in FolderUris, delete_all_videos_in_folder \in BOOLEAN,
       response \in PlainResponses :
        /\ response_code' = _set_response_code(Some(response.status_code))
        /\ call' = Returned("delete_folder",
                            [folder_uri |-> folder_uri,
                             delete_all_videos_in_folder |-> delete_all_videos_in_folder],
                            << Request("DELETE", ApiHost \o folder_uri,
                                       Some([should_delete_clips |-> delete_all_videos_in_folder])) >>,
                            << response >>, folder_uri)
        /\ SdkAndFilesUnchanged

remove_video_from_folder ==
    \E folder_uri \in FolderUris, video_uri \in VideoUris, response \in PlainResponses :
        /\ response_code' = _set_response_code(Some(response.status_code))
        /\ call' = Returned("remove_video_from_folder",
                            [folder_uri |-> folder_uri, video_uri |-> video_uri],
                            << Request("DELETE", folder_video_url(folder_uri, video_uri), None) >>,
                            << response >>, folder_uri)
        /\ SdkAndFilesUnchanged

\* ------------------------------------------------------- video records
\* soup = bs4.BeautifulSoup(html, "html.parser"): the tags of the document in
\* document order, each with its attributes; the lenient parser never fails
Tag(name, attrs) == [name |-> name, attrs |-> attrs]

\* the pieces between the separators of a query string
QueryPieces == { << "h", "=", "v" >>, << "h", "=", "w" >>, << "h", "=" >>,
                 << "h" >>, << "x", "=", "v" >> }
QuerySeparators == { "&", "&amp;" }

RECURSIVE QueriesOf(_, _)
\* the query strings of exactly n pieces separated by sep
QueriesOf(n, sep) ==
    IF n = 0 THEN { << >> }
    ELSE IF n = 1 THEN QueryPieces
    ELSE { q \o << sep >> \o piece : q \in QueriesOf(n - 1, sep), piece \in QueryPieces }

PlayerUrl == << "https://player.vimeo.com/video/42" >>

\* the src attributes of the iframes
Srcs == { PlayerUrl } \cup
        { PlayerUrl \o << "?" >> \o q :
            q \in UNION { QueriesOf(n, sep) : n \in 0..MaxParams, sep \in QuerySeparators } }

\* the embed HTML snippets of the video records
Htmls == { << >>, << Tag("div", EmptyDict) >>, << Tag("iframe", EmptyDict) >>,
           << Tag("div", EmptyDict),
              Tag("iframe", [src |-> PlayerUrl \o << "?", "h", "=", "v" >>]),
              Tag("iframe", [src |-> PlayerUrl \o << "?", "h", "=", "w" >>]) >> }
         \cup { << Tag("iframe", [src |-> src]) >> : src \in Srcs }

VideoRecord(transcode, embed) ==
    [transcode |-> transcode, is_playable |-> TRUE, link |-> << "https://vimeo.com/42" >>,
     duration |-> 180, width |-> 1920, height |-> 1080, embed |-> embed]

\* the JSON objects GET /videos/{id} answers with
VideoRecords ==
    { ErrorBody,
      VideoRecord([status |-> "complete"], [html |-> << >>]),
      VideoRecord(EmptyDict, [html |-> << >>]),
      [is_playable |-> TRUE, link |-> << "https://vimeo.com/42" >>, duration |-> 180],
      [transcode |-> [status |-> "in_progress"], is_playable |-> FALSE,
       link |-> << "https://vimeo.com/42" >>, duration |-> 0, width |-> 0, height |-> 0] }

\* the records get_video_hash fetches: only `embed` is read
HashRecords ==
    { [link |-> << "https://vimeo.com/42" >>],
      [link |-> << "https://vimeo.com/42" >>, embed |-> EmptyDict] }
    \cup { [link |-> << "https://vimeo.com/42" >>, embed |-> [html |-> html]] : html \in Htmls }

VideoResponses ==
    [status_code : { 200, 404 }, body : { NotJsonBody } \cup { JsonBody(r) : r \in VideoRecords }]
HashResponses ==
    { [status_code |-> 404, body |-> NotJsonBody], [status_code |-> 404, body |-> JsonBody(ErrorBody)] }
    \cup { [status_code |-> 200, body |-> JsonBody(r)] : r \in HashRecords }

\* ------------------------------------------------------------- get_video
get_video_request(video_uri) ==
    Request("GET", ApiHost \o << "/", "videos", "/" >> \o split_pop(video_uri), None)

get_video ==
    \E video_uri \in VideoUris, response \in VideoResponses :
        LET sent == << get_video_request(video_uri) >>
            args == [video_uri |-> video_uri] IN
        /\ response_code' = _set_response_code(Some(response.status_code))
        /\ call' = IF ~response.body.is_json
                   THEN Raised("get_video", args, sent, << response >>, "JSONDecodeError")
                   ELSE Returned("get_video", args, sent, << response >>, response.body.data)
        /\ SdkAndFilesUnchanged

\* the keys get_common_video_information reads from the record
CommonKeys == { "transcode", "is_playable", "link", "duration", "width", "height" }

get_common_video_information ==
    \E video_uri \in VideoUris, response \in VideoResponses :
        LET sent == << get_video_request(video_uri) >>
            args == [video_uri |-> video_uri]
            video == response.body.data IN
        /\ response_code' = _set_response_code(Some(response.status_code))
        /\ call' = IF ~response.body.is_json
                   THEN Raised("get_common_video_information", args, sent, << response >>,
                               "JSONDecodeError")
                   ELSE IF \/ ~(CommonKeys \subseteq DOMAIN video)
                           \/ "status" \notin DOMAIN video.transcode
                   THEN Raised("get_common_video_information", args, sent, << response >>,
                               "KeyError")
                   ELSE Returned("get_common_video_information", args, sent, << response >>,
                                 [status |-> video.transcode.status,
                                  is_playable |-> video.is_playable,
                                  link |-> video.link,
                                  duration |-> video.duration,
                                  width |-> video.width,
                                  height |-> video.height])
        /\ SdkAndFilesUnchanged

\* ---------------------------------------------- change_video_content_rating
\* slip: the last rating of the list is forgotten
ContentRatings_without_unrated == { "violence", "drugs", "language", "nudity", "advertisement", "safe" }

ContentRatings == { "violence", "drugs", "language", "nudity", "advertisement", "safe", "unrated" }

\* the ratings callers pass
RatingInputs == { "violence", "drugs", "language", "nudity", "advertisement", "safe",
                  "unrated", "adult", "Safe", "" }

change_video_content_rating ==
    \E video_uri \in { VideoUri42 }, rating \in RatingInputs,
       response \in UnreadResponses :
        LET args == [video_uri |-> video_uri, rating |-> rating]
            sent == << Request("PATCH", ApiHost \o << "/", "videos", "/" >> \o split_pop(video_uri),
                               Some([content_rating |-> << rating >>])) >> IN
        IF rating \notin ContentRatings
        THEN /\ call' = Raised("change_video_content_rating", args, << >>, << >>,
                               "NotImplementedError")
             /\ UNCHANGED response_code
             /\ SdkAndFilesUnchanged
        ELSE /\ response_code' = _set_response_code(Some(response.status_code))
             /\ call' = IF ~response.body.is_json
                        THEN Raised("change_video_content_rating", args, sent, << response >>,
                                    "JSONDecodeError")
                        ELSE Returned("change_video_content_rating", args, sent, << response >>,
                                      response.body.data)
             /\ SdkAndFilesUnchanged

\* ------------------------------------------------------- get_video_hash
\* src.replace("&amp;", "&")
replace_amp(s) == [i \in 1..Len(s) |-> IF s[i] = "&amp;" THEN "&" ELSE s[i]]

\* urlparse(src).query: the text after the first "?"
urlparse_query(src) ==
    IF \A i \in 1..Len(src) : src[i] # "?" THEN << >>
    ELSE LET i == CHOOSE k \in 1..Len(src) : src[k] = "?" /\ \A j \in 1..(k - 1) : src[j] # "?" IN
         SubSeq(src, i + 1, Len(src))

\* name_value.split("=", 1)
split_once(s, sep) ==
    IF \A i \in 1..Len(s) : s[i] # sep THEN << s >>
    ELSE LET i == CHOOSE k \in 1..Len(s) : s[k] = sep /\ \A j \in 1..(k - 1) : s[j] # sep IN
         << SubSeq(s, 1, i - 1), SubSeq(s, i + 1, Len(s)) >>

\* urllib.parse.parse_qsl(qs): the (name, value) pairs, in order; a piece
\* without "=" and a piece with a blank value are dropped
parse_qsl(qs) ==
    LET query_args == IF qs = << >> THEN << >> ELSE split(qs, "&")
        pairs == [i \in 1..Len(query_args) |-> split_once(query_args[i], "=")]
        Kept(nv) == Len(nv) = 2 /\ Len(nv[2]) > 0 IN
    SelectSeq(pairs, Kept)

\* urllib.parse.parse_qs(qs): name -> the list of its values, in order
parse_qs(qs) ==
    LET r == parse_qsl(qs)
        names == { r[i][1] : i \in 1..Len(r) } IN
    [name \in names |->
        LET Mine(nv) == nv[1] = name
            mine == SelectSeq(r, Mine) IN
        [i \in 1..Len(mine) |-> mine[i][2]]]

\* soup.find("iframe"): the first iframe tag, None when there is none
find_iframe(html) ==
    LET IsIframe(t) == t.name = "iframe"
        found == SelectSeq(html, IsIframe) IN
    IF found = << >> THEN None ELSE Some(found[1])

\* slip: the last value of h is taken, [-1] for [0]
hash_of_src_last_value(src) ==
    LET params == parse_qs(urlparse_query(replace_amp(src))) IN
    IF << "h" >> \notin DOMAIN params THEN << >>
    ELSE params[<< "h" >>][Len(params[<< "h" >>])]

\* parse_qs(urlparse(src).query)['h'][0], or '' where the code's except
\* clause catches the KeyError
hash_of_src(src) ==
    LET params == parse_qs(urlparse_query(replace_amp(src))) IN
    IF << "h" >> \notin DOMAIN params THEN << >> ELSE params[<< "h" >>][1]

\* the try block of get_video_hash: the hash, or '' after any exception
extract_hash(vimeo_video) ==
    IF "embed" \notin DOMAIN vimeo_video THEN << >>
    ELSE IF "html" \notin DOMAIN vimeo_video.embed THEN << >>
    ELSE LET iframe == find_iframe(vimeo_video.embed.html) IN
         IF iframe = None THEN << >>
         ELSE IF "src" \notin DOMAIN iframe[1].attrs THEN << >>
         ELSE hash_of_src(iframe[1].attrs.src)

get_video_hash ==
    \E video_uri \in { VideoUri42 },
       response \in HashResponses :
        LET sent == << get_video_request(video_uri) >>
            args == [video_uri |-> video_uri] IN
        /\ response_code' = _set_response_code(Some(response.status_code))
        /\ call' = IF ~response.body.is_json
                   THEN Raised("get_video_hash", args, sent, << response >>, "JSONDecodeError")
                   ELSE Returned("get_video_hash", args, sent, << response >>,
                                 extract_hash(response.body.data))
        /\ SdkAndFilesUnchanged

\* ---------------------------------------------------------- request bodies
\* a Python int and a Python str holding a number
PyInt(n) == [type |-> "int", value |-> n]
PyStr(n) == [type |-> "str", value |-> n]

\* the settings arguments: the parameter's default {} and overrides
SettingsInputs == { EmptyDict, [name |-> << "x" >>],
                    [name |-> << "x" >>, privacy |-> [view |-> "anybody"]] }

\* slip: the settings are merged into the default template
upload_video_data_merged(video_name, video_description, settings) ==
    LET template == [name |-> video_name,
                     description |-> video_description,
                     content_rating |-> << "safe" >>,
                     privacy |-> [download |-> FALSE, embed |-> "whitelist",
                                  comments |-> "nobody", view |-> "disable"],
                     review_page |-> [active |-> FALSE]] IN
    [k \in DOMAIN template \cup DOMAIN settings |->
        IF k \in DOMAIN settings THEN settings[k] ELSE template[k]]

\* the data dict upload_video hands to the SDK
upload_video_data(video_name, video_description, settings) ==
    IF settings = EmptyDict
    THEN [name |-> video_name,
          description |-> video_description,
          content_rating |-> << "safe" >>,
          privacy |-> [download |-> FALSE, embed |-> "whitelist",
                       comments |-> "nobody", view |-> "disable"],
          review_page |-> [active |-> FALSE]]
    ELSE settings

\* the data dict pull_video_from_url posts
pull_video_data(download_url, video_name, folder_uri, file_size, settings, logo_link) ==
    IF settings = EmptyDict
    THEN [name |-> video_name,
          description |-> << >>,
          upload |-> [approach |-> "pull", size |-> file_size, link |-> download_url],
          content_rating |-> << "safe" >>,
          privacy |-> [download |-> FALSE, embed |-> "whitelist",
                       comments |-> "nobody", view |-> "disable"],
          review_page |-> [active |-> FALSE],
          embed |-> [buttons |-> [embed |-> FALSE, fullscreen |-> TRUE, hd |-> TRUE,
                                  share |-> FALSE, watchlater |-> FALSE],
                     color |-> "#feeff0",
                     logos |-> [custom |-> [active |-> TRUE,
                                            link |-> IF logo_link # << >> THEN Some(logo_link) ELSE None,
                                            sticky |-> TRUE],
                                vimeo |-> FALSE],
                     playbar |-> TRUE,
                     title |-> [name |-> "hide", owner |-> "hide", portrait |-> "hide"],
                     volume |-> TRUE],
          folder_uri |-> IF folder_uri # None THEN folder_uri ELSE None]
    ELSE settings

\* ----------------------------------------------------- pull_video_from_url
DownloadUrl == << "https:", "/", "/", "host", "/", "movie.mp4" >>

\* the file_size arguments: None (the default), 0 and a known size
FileSizes == { None, Some(PyInt(0)), Some(PyInt(1024)) }

\* the headers of the HEAD response: without and with Content-Length
HeadResponses == { [headers |-> EmptyDict],
                   [headers |-> [k \in { "Content-Length" } |-> PyStr(2048)]] }

\* (folder_uri, logo_link) arguments
Placements == { << None, << >> >>, << FolderUri9, << "https://logo" >> >> }

\* `not file_size`
file_size_is_falsy(file_size) == file_size = None \/ file_size[1].value = 0

\* file_size after the first three lines of pull_video_from_url
detected_file_size(file_size, head_response) ==
    IF file_size_is_falsy(file_size)
    THEN IF "Content-Length" \in DOMAIN head_response.headers
         THEN head_response.headers["Content-Length"]
         ELSE PyInt(0)
    ELSE file_size[1]

PullResponses ==
    { [status_code |-> 200, body |-> JsonBody(UriBody)],
      [status_code |-> 404, body |-> JsonBody(ErrorBody)],
      [status_code |-> 404, body |-> NotJsonBody] }

pull_video_from_url ==
    \E file_size \in FileSizes, head_response \in HeadResponses, placement \in Placements,
       settings \in SettingsInputs,
       response \in PullResponses :
        LET video_name == << "x" >>
            folder_uri == placement[1]
            logo_link == placement[2]
            args == [download_url |-> DownloadUrl, video_name |-> video_name,
                     folder_uri |-> folder_uri, file_size |-> file_size,
                     settings |-> settings, logo_link |-> logo_link]
            head == IF file_size_is_falsy(file_size)
                    THEN << Request("HEAD", DownloadUrl, None) >> ELSE << >>
            heads == IF file_size_is_falsy(file_size) THEN << head_response >> ELSE << >>
            data == pull_video_data(DownloadUrl, video_name, folder_uri,
                                    detected_file_size(file_size, head_response),
                                    settings, logo_link)
            sent == head \o << Request("POST", ApiHost \o << "/", "me", "/", "videos" >>, Some(data)) >>
            responses == heads \o << response >> IN
        /\ response_code' = _set_response_code(Some(response.status_code))
        /\ call' = IF ~response.body.is_json
                   THEN Raised("pull_video_from_url", args, sent, responses, "JSONDecodeError")
                   ELSE IF "uri" \notin DOMAIN response.body.data
                   THEN Raised("pull_video_from_url", args, sent, responses, "KeyError")
                   ELSE Returned("pull_video_from_url", args, sent, responses,
                                 response.body.data.uri)
        /\ SdkAndFilesUnchanged

\* ----------------------------------------------------------- SDK uploads
\* the guard of _get_or_set_py_vimeo_client: it raises NotImplementedError
\* unless both are set
has_credentials == CLIENT_ID # None /\ CLIENT_SECRET # None

\* slip: the memo is not consulted, every call constructs a client
_get_or_set_py_vimeo_client_no_memo ==
    /\ sdk_constructions' = sdk_constructions + 1
    /\ py_vimeo_client' = Some(sdk_constructions + 1)

\* _get_or_set_py_vimeo_client, once the guard has passed: the memoized
\* client is returned, or a new one is constructed and memoized
_get_or_set_py_vimeo_client ==
    IF py_vimeo_client # None
    THEN UNCHANGED << py_vimeo_client, sdk_constructions >>
    ELSE /\ sdk_constructions' = sdk_constructions + 1
         /\ py_vimeo_client' = Some(sdk_constructions + 1)

\* what client.upload does: it returns the video's uri, returns nothing, or raises
UploadOutcomes == { "uri", "none", "raise" }

LocalVideo == << "movie.mp4" >>

upload_video ==
    \E video_name \in { None, Some(<< "x" >>) }, settings \in SettingsInputs,
       outcome \in UploadOutcomes :
        LET video_description == None
            args == [file_path |-> LocalVideo, video_name |-> video_name,
                     video_description |-> video_description, settings |-> settings]
            sent == << Request("SDK.upload", LocalVideo,
                               Some(upload_video_data(video_name, video_description, settings))) >>
            video_uri == IF outcome = "uri" THEN VideoUri42 ELSE None IN
        IF ~has_credentials
        THEN /\ call' = Raised("upload_video", args, << >>, << >>, "NotImplementedError")
             /\ UNCHANGED << CLIENT_ID, CLIENT_SECRET, py_vimeo_client, sdk_constructions,
                             response_code, files >>
        ELSE /\ _get_or_set_py_vimeo_client
             /\ IF outcome = "raise"
                THEN /\ call' = Raised("upload_video", args, sent, << >>, "VideoUploadFailure")
                     /\ UNCHANGED response_code
                ELSE /\ response_code' = _set_response_code(IF video_uri # None THEN Some(200) ELSE None)
                     /\ call' = Returned("upload_video", args, sent, << >>, video_uri)
             /\ UNCHANGED << CLIENT_ID, CLIENT_SECRET, files >>

\* file_path.startswith("http"), on tokens: the first token starts with "http"
startswith_http(file_path) == file_path # << >> /\ file_path[1] \in { "http:", "https:" }

\* the file_path arguments of upload_picture: a local file and a remote one
PicturePaths == { << "test.png" >>, << "https:", "/", "/", "host", "/", "pic.png" >> }

\* os.path.basename(file_path)
basename(file_path) == split_pop(file_path)

\* the dict client.upload_picture returns
PictureResult == [uri |-> VideoUri42 \o << "/", "pictures", "/", "1" >>,
                  link |-> << "https://cloud/1" >>, active |-> TRUE]

upload_picture ==
    \E file_path \in PicturePaths, retrieved \in BOOLEAN, uploaded \in BOOLEAN :
        LET args == [video_uri |-> VideoUri42, file_path |-> file_path]
            is_url == startswith_http(file_path)
            local_file == IF is_url THEN basename(file_path) ELSE None
            download == IF is_url
                        THEN << Request("urlretrieve", file_path, Some(local_file)) >>
                        ELSE << >>
            downloaded == IF is_url THEN files \cup { local_file } ELSE files
            upload_path == IF is_url THEN local_file ELSE file_path
            sent == download \o << Request("SDK.upload_picture", upload_path, None) >> IN
        IF is_url /\ ~retrieved
        THEN /\ call' = Raised("upload_picture", args, download, << >>, "URLError")
             /\ UNCHANGED << CLIENT_ID, CLIENT_SECRET, py_vimeo_client, sdk_constructions,
                             response_code, files >>
        ELSE IF ~has_credentials
        THEN /\ call' = Raised("upload_picture", args, download, << >>, "NotImplementedError")
             /\ files' = downloaded
             /\ UNCHANGED << CLIENT_ID, CLIENT_SECRET, py_vimeo_client, sdk_constructions,
                             response_code >>
        ELSE /\ _get_or_set_py_vimeo_client
             /\ IF ~uploaded
                THEN /\ call' = Raised("upload_picture", args, sent, << >>, "UploadPictureCreationFailure")
                     /\ files' = downloaded
                ELSE /\ call' = Returned("upload_picture", args, sent, << >>, PictureResult)
                     /\ files' = IF local_file # None /\ local_file \in downloaded
                                 THEN downloaded \ { local_file }
                                 ELSE downloaded
             /\ UNCHANGED << CLIENT_ID, CLIENT_SECRET, response_code >>

Next ==
    \/ tag_video
    \/ remove_tag_from_video
    \/ domain_whitelist_video
    \/ update_video_title
    \/ delete_video
    \/ add_video_to_folder
    \/ create_folder
    \/ update_folder_name
    \/ delete_folder
    \/ remove_video_from_folder
    \/ get_video
    \/ get_common_video_information
    \/ change_video_content_rating
    \/ get_video_hash
    \/ pull_video_from_url
    \/ upload_video
    \/ upload_picture

Spec == Init /\ [][Next]_vars

\* ------------------------------------------------------------- properties
\* the response to the call's own request (a HEAD response comes before it)
LastResponse == call.responses[Len(call.responses)]

NonSuccess(status_code) == status_code < 200 \/ status_code >= 300

\* C1: change_video_content_rating with a rating outside {violence, drugs,
\* language, nudity, advertisement, safe, unrated} raises the
\* unsupported-operation error having issued no request; with a rating inside
\* the set it issues exactly one request, a PATCH.
C1_RatingCheckedBeforeRequest ==
    call.op = "change_video_content_rating" =>
        IF call.args.rating \in { "violence", "drugs", "language", "nudity",
                                  "advertisement", "safe", "unrated" }
        THEN Len(call.sent) = 1 /\ call.sent[1].method = "PATCH"
        ELSE /\ call.outcome = "raised"
             /\ call.exc = "NotImplementedError"
             /\ call.sent = << >>

C1_Witness_RejectedRating ==
    /\ call.op = "change_video_content_rating"
    /\ call.args.rating = "adult"
    /\ call.exc = "NotImplementedError"
    /\ call.sent = << >>

\* C2: once upload_picture has downloaded a remote URL to a local file, that
\* file no longer exists when the call has ended, however the call ended.
C2_DownloadedFileRemoved ==
    (/\ call.op = "upload_picture"
     /\ call.sent # << >>
     /\ call.sent[1].method = "urlretrieve"
     /\ call.exc # "URLError")
    => call.sent[1].body[1] \notin files

\* C3 as stated: a call that received a non-success response from the remote
\* service ends by returning, never by raising.
C3_NoRaiseOnErrorResponse ==
    (call.responses # << >> /\ NonSuccess(LastResponse.status_code))
    => call.outcome = "returned"

\* the operations that call response.json()
BodyDecodingOps == { "get_video", "get_common_video_information",
                     "change_video_content_rating", "pull_video_from_url",
                     "create_folder", "update_folder_name", "get_video_hash" }

\* the decoded body cannot give the operation what it reads from it
BodyUnusable(op, body) ==
    \/ ~body.is_json
    \/ op \in { "pull_video_from_url", "create_folder" } /\ "uri" \notin DOMAIN body.data
    \/ /\ op = "get_common_video_information"
       /\ \/ \E k \in { "transcode", "is_playable", "link", "duration", "width", "height" } :
                k \notin DOMAIN body.data
          \/ "status" \notin DOMAIN body.data.transcode

\* C3 (amended): a call that received a non-success response raises exactly
\* when it is one of the operations that decode the response body and the
\* body is not JSON or lacks the field the operation reads; every other such
\* call, and every call of an operation that returns the status code or the
\* folder identifier without decoding the body, ends by returning.
C3_RaisesOnlyWhenBodyUnusable ==
    (call.responses # << >> /\ NonSuccess(LastResponse.status_code))
    => (call.outcome = "raised"
        <=> (call.op \in BodyDecodingOps /\ BodyUnusable(call.op, LastResponse.body)))

C3_Witness_StatusReturnedOn404 ==
    /\ call.op = "delete_folder"
    /\ LastResponse.status_code = 404
    /\ ~LastResponse.body.is_json
    /\ call.outcome = "returned"

\* the src of the first iframe of the record's embed HTML, None without one
C4_IframeSrc(video) ==
    IF "embed" \notin DOMAIN video THEN None
    ELSE IF "html" \notin DOMAIN video.embed THEN None
    ELSE LET html == video.embed.html
             iframes == { i \in 1..Len(html) : html[i].name = "iframe" } IN
         IF iframes = { } THEN None
         ELSE LET first == CHOOSE i \in iframes : \A j \in iframes : i <= j IN
              IF "src" \in DOMAIN html[first].attrs THEN Some(html[first].attrs.src) ELSE None

C4_IsSeparator(token) == token \in { "&", "&amp;" }

\* the value of the first query parameter written h=<value> with a value
\* that is not blank, '' when the src has none
C4_FirstH(src) ==
    LET marks == { i \in 1..Len(src) : src[i] = "?" }
        q == IF marks = { } THEN Len(src) ELSE CHOOSE i \in marks : \A j \in marks : i <= j
        starts == { i \in (q + 1)..(Len(src) - 2) :
                      /\ i = q + 1 \/ C4_IsSeparator(src[i - 1])
                      /\ src[i] = "h"
                      /\ src[i + 1] = "="
                      /\ ~C4_IsSeparator(src[i + 2]) } IN
    IF starts = { } THEN << >>
    ELSE LET i == CHOOSE k \in starts : \A j \in starts : k <= j
             ends == { e \in (i + 2)..Len(src) :
                         /\ \A j \in (i + 2)..e : ~C4_IsSeparator(src[j])
                         /\ e = Len(src) \/ C4_IsSeparator(src[e + 1]) } IN
         SubSeq(src, i + 2, CHOOSE e \in ends : TRUE)

\* C4: for every fetched video record get_video_hash returns, never raises:
\* '' when the embed HTML is missing, has no iframe, the iframe has no src or
\* the src has no h parameter with a value; otherwise the first value of h.
C4_HashOrEmpty ==
    (call.op = "get_video_hash" /\ LastResponse.body.is_json)
    => /\ call.outcome = "returned"
       /\ LET src == C4_IframeSrc(LastResponse.body.data) IN
          call.result = IF src = None THEN << >> ELSE C4_FirstH(src[1])

C4_Witness_FirstOfTwoValues ==
    /\ call.op = "get_video_hash"
    /\ call.outcome = "returned"
    /\ C4_IframeSrc(LastResponse.body.data)
         = Some(PlayerUrl \o << "?", "h", "=", "v", "&amp;", "h", "=", "w" >>)
    /\ call.result = << "v" >>

\* C5: pull_video_from_url issues a HEAD request if and only if the caller
\* gave no size (none for an explicit size, 0 included); the HEAD comes before
\* the POST; and the upload.size of the default body is 0 when the HEAD
\* response has no Content-Length, the header's value otherwise.
C5_HeadOnlyWithoutSize ==
    call.op = "pull_video_from_url" =>
        LET heads == { i \in 1..Len(call.sent) : call.sent[i].method = "HEAD" }
            posts == { i \in 1..Len(call.sent) : call.sent[i].method = "POST" } IN
        /\ heads # { } <=> call.args.file_size = None
        /\ \A i \in heads, j \in posts : i < j
        /\ (heads # { } /\ call.args.settings = EmptyDict) =>
              \A j \in posts :
                 call.sent[j].body[1].upload.size
                   = IF "Content-Length" \in DOMAIN call.responses[1].headers
                     THEN call.responses[1].headers["Content-Length"]
                     ELSE PyInt(0)

\* the body of the upload handed to the SDK or posted by the call
C6_Bodies == { call.sent[i].body[1] :
                 i \in { j \in 1..Len(call.sent) : call.sent[j].method \in { "SDK.upload", "POST" } } }

\* C6: upload_video and pull_video_from_url send exactly the settings the
\* caller supplied, with no field of the default template added; without
\* supplied settings (the parameter's default, the empty dict) they send the
\* default template.
C6_SettingsReplaceTemplate ==
    call.op \in { "upload_video", "pull_video_from_url" } =>
        \A body \in C6_Bodies :
            IF call.args.settings # EmptyDict
            THEN /\ DOMAIN body = DOMAIN call.args.settings
                 /\ \A k \in DOMAIN body : body[k] = call.args.settings[k]
            ELSE DOMAIN body =
                   IF call.op = "upload_video"
                   THEN { "name", "description", "content_rating", "privacy", "review_page" }
                   ELSE { "name", "description", "upload", "content_rating", "privacy",
                          "review_page", "embed", "folder_uri" }

C6_Witness_OverrideSentAlone ==
    /\ call.op = "upload_video"
    /\ call.args.settings = [name |-> << "x" >>]
    /\ C6_Bodies = { [name |-> << "x" >>] }

\* C7: update_folder_name, delete_folder and remove_video_from_folder return
\* the folder identifier they were given, for every remote response.
C7_FolderUriReturned ==
    (call.op \in { "update_folder_name", "delete_folder", "remove_video_from_folder" }
     /\ call.responses # << >>)
    => /\ call.outcome = "returned"
       /\ call.result = call.args.folder_uri

\* the status of a completed call: the status code of its response, 200 or
\* nothing for upload_video, nothing for upload_picture (a status of 0 is
\* recorded as nothing)
C8_StatusOf ==
    IF call.op = "upload_picture" THEN None
    ELSE IF call.op = "upload_video" THEN (IF call.result # None THEN Some(200) ELSE None)
    ELSE IF LastResponse.status_code = 0 THEN None
    ELSE Some(LastResponse.status_code)

\* C8: after every completed call the last-status field holds the status of
\* that call; no value written by an earlier call survives it.
C8_FieldIsStatusOfLastCall ==
    (call.op # "__init__" /\ call.outcome = "returned")
    => response_code = C8_StatusOf

\* C9: after upload_video the field is 200 when the SDK returned a resource
\* identifier and unset in every other outcome.
C9_UploadVideoStatus ==
    call.op = "upload_video" =>
        IF call.outcome = "returned" /\ call.result # None
        THEN response_code = Some(200)
        ELSE response_code = None

\* the text of uri after its last "/"
C10_LastSegment(uri) ==
    CHOOSE segment \in { SubSeq(uri, k + 1, Len(uri)) : k \in 0..Len(uri) } :
        /\ \A i \in 1..Len(segment) : segment[i] # "/"
        /\ Len(segment) = Len(uri) \/ uri[Len(uri) - Len(segment)] = "/"

\* C10: tag_video issues exactly one request, a PUT to
\* https://api.vimeo.com/videos/{id}/tags/{tag} with {id} the last path
\* segment of video_uri, and returns the response's status code unchanged;
\* for a non-zero status the last-status field holds the same value.
C10_TagVideoPutsAndReturnsStatus ==
    call.op = "tag_video" =>
        /\ Len(call.sent) = 1
        /\ call.sent[1].method = "PUT"
        /\ call.sent[1].url = << "https://api.vimeo.com", "/", "videos", "/" >>
                               \o C10_LastSegment(call.args.video_uri)
                               \o << "/", "tags", "/" >> \o call.args.tag
        /\ call.outcome = "returned"
        /\ call.result = LastResponse.status_code
        /\ LastResponse.status_code # 0 => response_code = Some(call.result)

C10_Witness_Scenario ==
    /\ call.op = "tag_video"
    /\ call.args.video_uri = VideoUri42
    /\ call.args.tag = << "demo" >>
    /\ call.sent[1].url = << "https://api.vimeo.com", "/", "videos", "/", "42",
                             "/", "tags", "/", "demo" >>
    /\ call.result = 404
    /\ response_code = Some(404)

\* the step is a call of one of the two operations that use the SDK, on a
\* client that has a client id and a client secret
C11_UploadCall ==
    /\ call'.op \in { "upload_video", "upload_picture" }
    /\ CLIENT_ID # None
    /\ CLIENT_SECRET # None

\* what C11 says of every call but the clause about the first call: the
\* client is constructed at most once, only by the two upload operations,
\* exactly when none is memoized, and a memoized one is never reset or replaced
C11_MemoKept ==
    /\ sdk_constructions' <= 1
    /\ py_vimeo_client # None => py_vimeo_client' = py_vimeo_client
    /\ py_vimeo_client' # py_vimeo_client => C11_UploadCall
    /\ sdk_constructions' # sdk_constructions =>
          /\ C11_UploadCall
          /\ py_vimeo_client = None
          /\ sdk_constructions' = sdk_constructions + 1
          /\ py_vimeo_client' # None

\* C11 as stated: over any series of calls on a client with a client id and
\* secret the SDK client is constructed at most once, the first upload_video
\* or upload_picture call constructs it and every later one reuses it; no
\* other operation constructs it and once set it is never reset or replaced.
C11_FirstUploadConstructs ==
    [][/\ C11_MemoKept
       /\ C11_UploadCall => py_vimeo_client' # None]_vars

\* C11 (amended): as stated, except that an upload_picture call whose
\* download of the remote picture fails ends before it asks for the SDK
\* client and constructs nothing; the first upload call that gets past the
\* download constructs the client.
C11_FirstUploadPastDownloadConstructs ==
    [][/\ C11_MemoKept
       /\ (C11_UploadCall /\ call'.exc # "URLError") => py_vimeo_client' # None]_vars

\* upload_video reuses the client an earlier upload_picture constructed: the
\* picture that earlier call downloaded is still there because its SDK upload
\* raised, after the client had been obtained
C11_Witness_LaterCallReuses ==
    /\ call.op = "upload_video"
    /\ call.outcome = "returned"
    /\ files = { << "pic.png" >> }
    /\ py_vimeo_client = Some(1)
    /\ sdk_constructions = 1

====
